---- MODULE Spec2Model ----
(***************************************************************************)
(* A model of the tic-tac-toe Q-learning program: the environment          *)
(* (TicTacToeEnv), the tabular agent (QLearningAgent), the self-play       *)
(* training loop (train) and the replay driver (play_game) of              *)
(* src/tic_tac_toe_ai.py.                                                  *)
(*                                                                         *)
(* Python values are rendered as follows.  A board (a tuple of 9 strings)  *)
(* is a sequence of 9 strings, so that cell i of the program is element    *)
(* i + 1 of the sequence.  None is the string "None", and -1 where an       *)
(* action is expected.  A number that the                                  *)
(* program holds as a float or an int (a reward, an estimate, an           *)
(* exploration rate) is an exact rational <<n, d>> in lowest terms with    *)
(* d > 0.  A dict is a function whose DOMAIN is the set of its keys.       *)
(***************************************************************************)
EXTENDS Integers, Sequences, FiniteSets, TLC

VARIABLES
    board,          \* TicTacToeEnv.board
    done,           \* TicTacToeEnv.done
    winner,         \* TicTacToeEnv.winner
    call,           \* the last call made on the environment and what it returned
    agents,         \* the two QLearningAgent objects, by player_mark
    acall,          \* the last method called on an agent, with the table before it
    pc,             \* where train or play_game stands
    num_episodes,   \* train: num_episodes
    print_interval, \* train: print_interval
    episode,        \* train: episodes completed so far (the for loop's index)
    stats,          \* train: stats
    state,          \* train, play_game: state
    current_agent,  \* train, play_game: current_agent (its mark)
    other_agent,    \* train: other_agent (its mark)
    last_move,      \* train: last_move
    updates,        \* train: the update_q_table calls of the last turn, in order
    transcript,     \* the moves of the running episode, in order
    original_epsilon, \* play_game: original_epsilon_x, original_epsilon_o
    width,          \* how many of random.choice's outcomes are followed
    files,          \* the artifacts on disk, by file name
    buttons,        \* TicTacToeFrame.buttons: the nine labels, row by row
    current_player, \* TicTacToeFrame.current_player
    game_over,      \* TicTacToeFrame.game_over
    ai_playback_active, \* TicTacToeFrame.ai_playback_active
    status_label,   \* TicTacToeFrame.status_label's text
    restart_enabled, \* whether TicTacToeFrame.restart_button is enabled
    threads,        \* the run_ai_game threads started so far; ai_thread is the last
    queue,          \* the calls wx.CallAfter has queued for the event loop
    gui             \* the handler the GUI thread runs, and where it stands in it

envVars == <<board, done, winner, call>>

runVars ==
    <<pc, num_episodes, print_interval, episode, stats, state, current_agent,
      other_agent, last_move, updates, transcript, original_epsilon>>

guiVars ==
    <<buttons, current_player, game_over, ai_playback_active, status_label,
      restart_enabled, threads, queue, gui>>

vars == <<envVars, agents, acall, runVars, width, files, guiVars>>

(***************************************************************************)
(* Bounds                                                                  *)
(***************************************************************************)
\* train is called with num_episodes in 0 .. MaxNumEpisodes
MaxNumEpisodes == 10
\* at most MaxEpisodes episodes of one train call are run
MaxEpisodes == 2
\* in Spec, random.choice draws its index in 0 .. MaxChoice - 1
MaxChoice == 2
\* SpecAgent makes at most MaxAgentCalls calls on the agent
MaxAgentCalls == 2
\* SpecDecay draws the three rates from 0, 1/RateSteps, ..., 1
RateSteps == 4
\* SpecDecay makes at most MaxDecays calls of decay_exploration
MaxDecays == 3
\* SpecStore makes at most MaxStoreCalls calls of save_q_table and load_q_table
MaxStoreCalls == 3
\* SpecWatch starts at most MaxThreads run_ai_game threads
MaxThreads == 2
\* the user clicks a cell only while fewer than MaxClicks cells are marked
MaxClicks == 1
\* a thread waits while MaxQueue calls queued by wx.CallAfter are pending
MaxQueue == 3
\* in SpecWatch a thread waits while MaxBacklog queued calls are pending
MaxBacklog == 2
\* in SpecGui and SpecWatch, random.choice draws its index in
\* 0 .. WatchChoice - 1
WatchChoice == 1
\* SpecWatch: a thread chooses an action only on a board read with fewer marks
MaxMarks == 1

(***************************************************************************)
(* Numbers                                                                 *)
(***************************************************************************)
Abs(n) == IF n < 0 THEN -n ELSE n

RECURSIVE Gcd(_, _)
Gcd(a, b) == IF b = 0 THEN a ELSE Gcd(b, a % b)

\* The rational n/d (d # 0) in lowest terms with a positive denominator.
Rat(n, d) ==
    LET g == Gcd(Abs(n), Abs(d))
        s == IF d < 0 THEN -1 ELSE 1
    IN  <<(s * n) \div g, (s * d) \div g>>

Lcm(a, b) == (a \div Gcd(a, b)) * b

RAdd(x, y) ==
    LET m == Lcm(x[2], y[2])
    IN  Rat(x[1] * (m \div x[2]) + y[1] * (m \div y[2]), m)

RNeg(x) == <<-x[1], x[2]>>

RSub(x, y) == RAdd(x, RNeg(y))

RMul(x, y) ==
    LET g1 == Gcd(Abs(x[1]), y[2])
        g2 == Gcd(Abs(y[1]), x[2])
    IN  Rat((x[1] \div g1) * (y[1] \div g2), (x[2] \div g2) * (y[2] \div g1))

RLess(x, y) ==
    LET m == Lcm(x[2], y[2])
    IN  x[1] * (m \div x[2]) < y[1] * (m \div y[2])

RLeq(x, y) == x = y \/ RLess(x, y)

RMax(x, y) == IF RLess(x, y) THEN y ELSE x

\* max() of a non-empty sequence of numbers
RECURSIVE RMaxSeq(_)
RMaxSeq(s) == IF Len(s) = 1 THEN s[1] ELSE RMax(s[1], RMaxSeq(Tail(s)))

Zero == Rat(0, 1)
One == Rat(1, 1)
Half == Rat(1, 2)

(***************************************************************************)
(* TicTacToeEnv                                                            *)
(***************************************************************************)
None == "None"
Empty == " "
Marks == {"X", "O"}
Cells == 0 .. 8

EmptyBoard == [i \in 1 .. 9 |-> Empty]

\* check_winner's list of lines, in the order it tries them
Lines ==
    << <<0, 1, 2>>, <<3, 4, 5>>, <<6, 7, 8>>,
       <<0, 3, 6>>, <<1, 4, 7>>, <<2, 5, 8>>,
       <<0, 4, 8>>, <<2, 4, 6>> >>

LineDone(b, l) ==
    /\ b[l[1] + 1] = b[l[2] + 1]
    /\ b[l[2] + 1] = b[l[3] + 1]
    /\ b[l[3] + 1] # Empty

HasEmpty(b) == \E i \in 1 .. 9 : b[i] = Empty

\* check_winner with the test for a full board made before the lines
check_winner_full_first(b) ==
    IF ~HasEmpty(b)
    THEN "Draw"
    ELSE LET hits == {k \in 1 .. Len(Lines) : LineDone(b, Lines[k])}
         IN  IF hits # {}
             THEN LET first == CHOOSE k \in hits : \A j \in hits : k <= j
                  IN  b[Lines[first][1] + 1]
             ELSE None

check_winner(b) ==
    LET hits == {k \in 1 .. Len(Lines) : LineDone(b, Lines[k])}
    IN  IF hits # {}
        THEN LET first == CHOOSE k \in hits : \A j \in hits : k <= j
             IN  b[Lines[first][1] + 1]
        ELSE IF ~HasEmpty(b) THEN "Draw" ELSE None

\* get_available_actions that finds no cell
get_available_actions_none(b) == <<>>

\* get_available_actions without its filter
get_available_actions_unfiltered(b) == <<0, 1, 2, 3, 4, 5, 6, 7, 8>>

get_available_actions(b) ==
    SelectSeq(<<0, 1, 2, 3, 4, 5, 6, 7, 8>>, LAMBDA i : b[i + 1] = Empty)

\* the test without "or self.done"
InvalidMove_occupied_only(b, d, action) == b[action + 1] # Empty

\* the test without the look at the cell
InvalidMove_done_only(b, d, action) == d

\* step's test for a move it rejects
InvalidMove(b, d, action) == b[action + 1] # Empty \/ d

\* step(action, player) on an environment (b, d, w): the environment it
\* leaves and the triple it returns.
step(b, d, w, action, player) ==
    IF InvalidMove(b, d, action)
    THEN [board |-> b, done |-> d, winner |-> w,
          state |-> b, reward |-> Rat(-10, 1), rdone |-> d]
    ELSE LET b2 == [b EXCEPT ![action + 1] = player]
             w2 == check_winner(b2)
         IN  IF w2 # None
             THEN [board |-> b2, done |-> TRUE, winner |-> w2,
                   state |-> b2,
                   reward |-> IF w2 = player THEN One
                              ELSE IF w2 = "Draw" THEN Half
                              ELSE Rat(-1, 1),
                   rdone |-> TRUE]
             ELSE IF ~HasEmpty(b2)
             THEN [board |-> b2, done |-> TRUE, winner |-> "Draw",
                   state |-> b2, reward |-> Half, rdone |-> TRUE]
             ELSE [board |-> b2, done |-> d, winner |-> w2,
                   state |-> b2, reward |-> Zero, rdone |-> d]

EnvInit ==
    /\ board = EmptyBoard
    /\ done = FALSE
    /\ winner = None
    /\ call = [op |-> "none"]

NoCall == [op |-> "none"]

ResetCall(b) == [op |-> "reset", state |-> b]

StepCall(b, d, w, action, player, r) ==
    [op |-> "step", action |-> action, player |-> player,
     pre_board |-> b, pre_done |-> d, pre_winner |-> w,
     state |-> r.state, reward |-> r.reward, done |-> r.rdone]

(***************************************************************************)
(* QLearningAgent                                                          *)
(***************************************************************************)
\* collections.defaultdict(...) with no key
EmptyDict == [k \in {} |-> Zero]

\* d[k] = v on a dict
DictSet(d, k, v) == [x \in DOMAIN d \cup {k} |-> IF x = k THEN v ELSE d[x]]

\* d.get(k, 0.0)
DictGet(d, k) == IF k \in DOMAIN d THEN d[k] ELSE Zero

\* a read that replaces the inner dict whether or not the key is there
Touch_resets(q, s) == DictSet(q, s, EmptyDict)

\* q_table[s] read on the outer defaultdict: a missing key is inserted with
\* an empty inner defaultdict
Touch(q, s) == IF s \in DOMAIN q THEN q ELSE DictSet(q, s, EmptyDict)

\* The classes of the objects that make up a table: the class of the outer
\* mapping, and the stored states whose inner mapping is a plain dict (the
\* other inner mappings are defaultdict(float)).  A defaultdict makes a
\* missing key on a read, a plain dict raises KeyError.
NestedDefaultdict == [table |-> "defaultdict", dict_rows |-> {}]

\* QLearningAgent.__init__ with the default hyperparameters; q_table is the
\* items of self.q_table and q_class the classes of its objects
NewAgent(mark) ==
    [player_mark |-> mark,
     q_table |-> EmptyDict,
     q_class |-> NestedDefaultdict,
     lr |-> Rat(1, 10),
     gamma |-> Rat(9, 10),
     epsilon |-> Rat(1, 1),
     epsilon_decay |-> Rat(999, 1000),
     min_epsilon |-> Rat(1, 100)]

\* choose_action's None, among actions (which are integers)
NoAction == -1

\* a choice that always takes the first element
RandomChoice_first(seq) == {seq[1]}

\* random.choice(seq): the elements it can return, the random index being
\* drawn below width
RandomChoice(seq) ==
    {seq[i] : i \in 1 .. (IF Len(seq) < width THEN Len(seq) ELSE width)}

\* choose_action(state, available_actions): every (returned action, table
\* left behind) the call can end with
choose_action(agent, s, available_actions) ==
    IF available_actions = <<>>
    THEN {[action |-> NoAction, q_table |-> agent.q_table]}
    ELSE LET explore ==
                 {[action |-> a, q_table |-> agent.q_table] :
                      a \in RandomChoice(available_actions)}
             q1 == Touch(agent.q_table, s)
             state_q_values == q1[s]
             max_q == RMaxSeq([i \in 1 .. Len(available_actions) |->
                                  DictGet(state_q_values, available_actions[i])])
             best_actions ==
                 SelectSeq(available_actions,
                           LAMBDA a : DictGet(state_q_values, a) = max_q)
             exploit ==
                 {[action |-> a, q_table |-> q1] : a \in RandomChoice(best_actions)}
         IN  \* random.uniform(0, 1) lies in [0, 1)
             (IF RLess(Zero, agent.epsilon) THEN explore ELSE {})
             \cup (IF RLess(agent.epsilon, One) THEN exploit ELSE {})

\* update_q_table(state, action, reward, next_state, next_available_actions)
\* on table q: the table it leaves
update_q_table(q, lr, gamma, s, action, reward, next_state, next_available_actions) ==
    LET q1 == IF next_available_actions = <<>> THEN q ELSE Touch(q, next_state)
        max_next_q ==
            IF next_available_actions = <<>>
            THEN Zero
            ELSE RMaxSeq([i \in 1 .. Len(next_available_actions) |->
                             DictGet(q1[next_state], next_available_actions[i])])
        q2 == Touch(q1, s)
        current_q == DictGet(q2[s], action)
        new_q == RAdd(current_q,
                      RMul(lr, RSub(RAdd(reward, RMul(gamma, max_next_q)), current_q)))
    IN  DictSet(q2, s, DictSet(q2[s], action, new_q))

\* decay_exploration without the floor
decay_exploration_no_floor(agent) ==
    [agent EXCEPT !.epsilon = RMul(agent.epsilon, agent.epsilon_decay)]

\* decay_exploration()
decay_exploration(agent) ==
    [agent EXCEPT !.epsilon = RMax(agent.min_epsilon,
                                   RMul(agent.epsilon, agent.epsilon_decay))]

(***************************************************************************)
(* train                                                                   *)
(***************************************************************************)
X == "X"
O == "O"

\* stats = {"X": 0, "O": 0, "Draw": 0}
NewStats == [k \in {"X", "O", "Draw"} |-> 0]

\* one update_q_table call, as train makes it
UpdateCall(kind, mark, s, action, reward, next_state, next_available_actions) ==
    [kind |-> kind, agent |-> mark, state |-> s, action |-> action,
     reward |-> reward, next_state |-> next_state,
     next_available_actions |-> next_available_actions]

\* the opponent's reward without the negation
opponent_reward_same(reward) == reward

\* opponent_reward = -reward if reward != 0.5 else reward
opponent_reward(reward) == IF reward # Half THEN RNeg(reward) ELSE reward

\* the calls of one pass, the deferred update being given the board after the
\* current move as its next state
TurnUpdates_deferred_sees_result(cur, oth, s, available_actions, lm, action, r) ==
    LET next_available_actions == get_available_actions(r.board)
        own == <<UpdateCall("own", cur, s, action, r.reward, r.state,
                            next_available_actions)>>
        deferred ==
            IF cur \in DOMAIN lm
            THEN <<UpdateCall("deferred", oth, lm[cur][1], lm[cur][2],
                              opponent_reward(r.reward), r.state,
                              next_available_actions)>>
            ELSE <<>>
        lm1 == DictSet(lm, oth, <<s, action>>)
        state1 == r.state
        final ==
            IF r.rdone
            THEN <<UpdateCall("final_own", cur, state1, action, r.reward,
                              r.state, <<>>)>>
                 \o (IF cur \in DOMAIN lm1
                     THEN <<UpdateCall("final_opponent", oth, lm1[cur][1],
                                       lm1[cur][2], opponent_reward(r.reward),
                                       state1, <<>>)>>
                     ELSE <<>>)
            ELSE <<>>
    IN  own \o deferred \o final

\* The calls update_q_table receives in one pass of train's while loop, in
\* order: s, available_actions and lm are state, available_actions and
\* last_move as the pass finds them, r is what step returned.
TurnUpdates(cur, oth, s, available_actions, lm, action, r) ==
    LET next_available_actions == get_available_actions(r.board)
        own == <<UpdateCall("own", cur, s, action, r.reward, r.state,
                            next_available_actions)>>
        deferred ==
            IF cur \in DOMAIN lm
            THEN <<UpdateCall("deferred", oth, lm[cur][1], lm[cur][2],
                              opponent_reward(r.reward), s, available_actions)>>
            ELSE <<>>
        lm1 == DictSet(lm, oth, <<s, action>>)
        state1 == r.state
        final ==
            IF r.rdone
            THEN <<UpdateCall("final_own", cur, state1, action, r.reward,
                              r.state, <<>>)>>
                 \o (IF cur \in DOMAIN lm1
                     THEN <<UpdateCall("final_opponent", oth, lm1[cur][1],
                                       lm1[cur][2], opponent_reward(r.reward),
                                       state1, <<>>)>>
                     ELSE <<>>)
            ELSE <<>>
    IN  own \o deferred \o final

\* the agents after the update_q_table calls us, made in order
RECURSIVE ApplyUpdates(_, _)
ApplyUpdates(ags, us) ==
    IF us = <<>>
    THEN ags
    ELSE LET u == Head(us)
             a == ags[u.agent]
             q == update_q_table(a.q_table, a.lr, a.gamma, u.state, u.action,
                                 u.reward, u.next_state, u.next_available_actions)
         IN  ApplyUpdates([ags EXCEPT ![u.agent].q_table = q], Tail(us))

Move(mark, s, action) == [mark |-> mark, state |-> s, action |-> action]

\* nothing is running
Idle ==
    /\ pc = "idle"
    /\ num_episodes = 0
    /\ print_interval = 0
    /\ episode = 0
    /\ stats = NewStats
    /\ state = EmptyBoard
    /\ current_agent = X
    /\ other_agent = O
    /\ last_move = EmptyDict
    /\ updates = <<>>
    /\ transcript = <<>>
    /\ original_epsilon = [m \in Marks |-> Zero]

\* no artifact has been written
NoFiles == files = [f \in {} |-> EmptyDict]

\* the GUI thread is in the event loop, between two handlers
GuiIdle == [pc |-> "idle"]

\* the window of tic_tac_toe_gui.py is not open
NoFrame ==
    /\ buttons = [i \in 1 .. 9 |-> ""]
    /\ current_player = X
    /\ game_over = FALSE
    /\ ai_playback_active = FALSE
    /\ status_label = ""
    /\ restart_enabled = TRUE
    /\ threads = <<>>
    /\ queue = <<>>
    /\ gui = GuiIdle

Init ==
    /\ EnvInit
    /\ agents = [m \in Marks |-> NewAgent(m)]
    /\ acall = NoCall
    /\ Idle
    /\ width = MaxChoice
    /\ NoFiles
    /\ NoFrame

\* train(env, agent_x, agent_o, num_episodes) is called: lines 143-144
TrainCall ==
    /\ pc = "idle"
    /\ \E n \in 0 .. MaxNumEpisodes :
           /\ num_episodes' = n
           /\ print_interval' = n \div 10
    /\ stats' = NewStats
    /\ episode' = 0
    /\ pc' = "for"
    /\ UNCHANGED <<envVars, agents, acall, state, current_agent, other_agent,
                   last_move, updates, transcript, original_epsilon,
                   width, files, guiVars>>

\* an episode started without last_move = {}
EpisodeStart_keeps_last_move ==
    /\ pc = "for"
    /\ episode < num_episodes
    /\ episode < MaxEpisodes
    /\ board' = EmptyBoard
    /\ done' = FALSE
    /\ winner' = None
    /\ call' = ResetCall(EmptyBoard)
    /\ state' = EmptyBoard
    /\ current_agent' = X
    /\ other_agent' = O
    /\ updates' = <<>>
    /\ transcript' = <<>>
    /\ pc' = "while"
    /\ UNCHANGED <<agents, acall, num_episodes, print_interval, episode, stats,
                   last_move, original_epsilon, width, files, guiVars>>

\* the for loop starts an episode: lines 146-151
EpisodeStart ==
    /\ pc = "for"
    /\ episode < num_episodes
    /\ episode < MaxEpisodes
    /\ board' = EmptyBoard
    /\ done' = FALSE
    /\ winner' = None
    /\ call' = ResetCall(EmptyBoard)
    /\ state' = EmptyBoard
    /\ current_agent' = X
    /\ other_agent' = O
    /\ last_move' = EmptyDict
    /\ updates' = <<>>
    /\ transcript' = <<>>
    /\ pc' = "while"
    /\ UNCHANGED <<agents, acall, num_episodes, print_interval, episode, stats,
                   original_epsilon,
                   width, files, guiVars>>

\* one pass of the while loop: lines 153-195.  (\E r \in {e} binds r to the
\* value of e.)
Turn ==
    /\ pc = "while"
    /\ LET available_actions == get_available_actions(board)
       IN  \E c \in choose_action(agents[current_agent], state, available_actions) :
               LET chosen == [agents EXCEPT ![current_agent].q_table = c.q_table]
               IN  IF c.action = NoAction
                   THEN /\ agents' = chosen
                        /\ pc' = "decay"
                        /\ updates' = <<>>
                        /\ UNCHANGED <<envVars, state, current_agent, other_agent,
                                       last_move, stats, transcript>>
                   ELSE \E r \in {step(board, done, winner, c.action, current_agent)} :
                        \E us \in {TurnUpdates(current_agent, other_agent, state,
                                               available_actions, last_move,
                                               c.action, r)} :
                            /\ board' = r.board
                            /\ done' = r.done
                            /\ winner' = r.winner
                            /\ call' = StepCall(board, done, winner, c.action,
                                                current_agent, r)
                            /\ agents' = ApplyUpdates(chosen, us)
                            /\ updates' = us
                            /\ last_move' = DictSet(last_move, other_agent,
                                                    <<state, c.action>>)
                            /\ state' = r.state
                            /\ transcript' = Append(transcript,
                                                    Move(current_agent, state, c.action))
                            /\ IF r.rdone
                               THEN /\ stats' = IF r.winner \in DOMAIN stats
                                                THEN [stats EXCEPT ![r.winner] = @ + 1]
                                                ELSE stats
                                    /\ pc' = "decay"
                                    /\ UNCHANGED <<current_agent, other_agent>>
                               ELSE /\ current_agent' = other_agent
                                    /\ other_agent' = current_agent
                                    /\ UNCHANGED <<stats, pc>>
    /\ UNCHANGED <<acall, num_episodes, print_interval, episode, original_epsilon,
                   width, files, guiVars>>

\* after the while loop: lines 197-204.  (episode + 1) % print_interval
\* raises ZeroDivisionError when print_interval is 0.
EpisodeEnd ==
    /\ pc = "decay"
    /\ agents' = [m \in Marks |-> decay_exploration(agents[m])]
    /\ IF print_interval = 0
       THEN /\ pc' = "raised"
            /\ UNCHANGED episode
       ELSE /\ pc' = "for"
            /\ episode' = episode + 1
    /\ UNCHANGED <<envVars, acall, num_episodes, print_interval, stats, state,
                   current_agent, other_agent, last_move, updates, transcript,
                   original_epsilon,
                   width, files, guiVars>>

\* the for loop is over: line 206
TrainReturn ==
    /\ pc = "for"
    /\ episode = num_episodes
    /\ pc' = "returned"
    /\ UNCHANGED <<envVars, agents, acall, num_episodes, print_interval, episode,
                   stats, state, current_agent, other_agent, last_move, updates,
                   transcript, original_epsilon,
                   width, files, guiVars>>

(***************************************************************************)
(* play_game                                                               *)
(***************************************************************************)
\* play_game that hands the first move to agent_o
PlayCall_agent_o_first ==
    /\ pc \in {"idle", "returned"}
    /\ board' = EmptyBoard
    /\ done' = FALSE
    /\ winner' = None
    /\ call' = ResetCall(EmptyBoard)
    /\ state' = EmptyBoard
    /\ current_agent' = O
    /\ original_epsilon' = [m \in Marks |-> agents[m].epsilon]
    /\ agents' = [m \in Marks |-> [agents[m] EXCEPT !.epsilon = Zero]]
    /\ transcript' = <<>>
    /\ pc' = "play"
    /\ UNCHANGED <<acall, num_episodes, print_interval, episode, stats,
                   other_agent, last_move, updates, width, files, guiVars>>

\* play_game(env, agent_x, agent_o) is called: lines 210-219
PlayCall ==
    /\ pc \in {"idle", "returned"}
    /\ board' = EmptyBoard
    /\ done' = FALSE
    /\ winner' = None
    /\ call' = ResetCall(EmptyBoard)
    /\ state' = EmptyBoard
    /\ current_agent' = X
    /\ original_epsilon' = [m \in Marks |-> agents[m].epsilon]
    /\ agents' = [m \in Marks |-> [agents[m] EXCEPT !.epsilon = Zero]]
    /\ transcript' = <<>>
    /\ pc' = "play"
    /\ UNCHANGED <<acall, num_episodes, print_interval, episode, stats,
                   other_agent, last_move, updates, width, files, guiVars>>

\* play_game without its last two lines
RestoreEpsilon_forgets(ags, eps) == ags

\* lines 240-241
RestoreEpsilon(ags, eps) == [m \in Marks |-> [ags[m] EXCEPT !.epsilon = eps[m]]]

\* one pass of the while loop, lines 221-237, and, when the loop ends, the
\* lines after it, 239-241
PlayTurn ==
    /\ pc = "play"
    /\ LET available_actions == get_available_actions(board)
       IN  \E c \in choose_action(agents[current_agent], state, available_actions) :
               LET chosen == [agents EXCEPT ![current_agent].q_table = c.q_table]
               IN  IF c.action = NoAction
                   THEN /\ agents' = RestoreEpsilon(chosen, original_epsilon)
                        /\ pc' = "played"
                        /\ UNCHANGED <<envVars, state, current_agent, transcript>>
                   ELSE \E r \in {step(board, done, winner, c.action, current_agent)} :
                            /\ board' = r.board
                            /\ done' = r.done
                            /\ winner' = r.winner
                            /\ call' = StepCall(board, done, winner, c.action,
                                                current_agent, r)
                            /\ state' = r.state
                            /\ transcript' = Append(transcript,
                                                    Move(current_agent, state, c.action))
                            /\ IF r.rdone
                               THEN /\ agents' = RestoreEpsilon(chosen, original_epsilon)
                                    /\ pc' = "played"
                                    /\ UNCHANGED current_agent
                               ELSE /\ agents' = chosen
                                    /\ current_agent' = IF current_agent = X THEN O ELSE X
                                    /\ UNCHANGED pc
    /\ UNCHANGED <<acall, num_episodes, print_interval, episode, stats,
                   other_agent, last_move, updates, original_epsilon,
                   width, files, guiVars>>

Next ==
    \/ TrainCall
    \/ EpisodeStart
    \/ Turn
    \/ EpisodeEnd
    \/ TrainReturn
    \/ PlayCall
    \/ PlayTurn

Spec == Init /\ [][Next]_vars

(***************************************************************************)
(* One episode of train, and play_game, with every outcome of              *)
(* random.choice followed: all the games that can be played                *)
(***************************************************************************)
InitGames ==
    /\ EnvInit
    /\ agents = [m \in Marks |-> NewAgent(m)]
    /\ acall = NoCall
    /\ Idle
    /\ width = Len(EmptyBoard)
    /\ NoFiles
    /\ NoFrame

NextGames ==
    \/ TrainCall /\ num_episodes' = 1
    \/ EpisodeStart
    \/ Turn
    \/ EpisodeEnd
    \/ PlayCall
    \/ PlayTurn

SpecGames == InitGames /\ [][NextGames]_vars

(***************************************************************************)
(* The environment alone, driven by any sequence of reset and step calls   *)
(***************************************************************************)
EnvReset ==
    /\ board' = EmptyBoard
    /\ done' = FALSE
    /\ winner' = None
    /\ call' = ResetCall(EmptyBoard)
    /\ UNCHANGED <<agents, acall, runVars, width, files, guiVars>>

EnvStep ==
    /\ \E action \in Cells, player \in Marks :
        \E r \in {step(board, done, winner, action, player)} :
            /\ board' = r.board
            /\ done' = r.done
            /\ winner' = r.winner
            /\ call' = StepCall(board, done, winner, action, player, r)
    /\ UNCHANGED <<agents, acall, runVars, width, files, guiVars>>

EnvNext == EnvReset \/ EnvStep

SpecEnv == Init /\ [][EnvNext]_vars

(***************************************************************************)
(* One agent, driven by any sequence of choose_action and update_q_table   *)
(* calls                                                                   *)
(***************************************************************************)
\* the boards the calls are made with
AgentStates ==
    {EmptyBoard,
     [EmptyBoard EXCEPT ![5] = X]}

\* rewards train passes to update_q_table
Rewards == {Rat(-1, 1), Zero, Half, One}

\* QLearningAgent("X", exploration_rate = e) for e in 0, 0.5, 1
InitAgent ==
    /\ EnvInit
    /\ \E e \in {Zero, Half, One} :
           agents = [m \in Marks |-> [NewAgent(m) EXCEPT !.epsilon = e]]
    /\ acall = [op |-> "__init__", n |-> 0]
    /\ Idle
    /\ width = MaxChoice
    /\ NoFiles
    /\ NoFrame

AgentChoose ==
    /\ acall.n < MaxAgentCalls
    /\ \E s \in AgentStates :
           \E c \in choose_action(agents[X], s, get_available_actions(s)) :
               /\ agents' = [agents EXCEPT ![X].q_table = c.q_table]
               /\ acall' = [op |-> "choose_action", n |-> acall.n + 1,
                            before |-> agents[X].q_table, state |-> s,
                            available_actions |-> get_available_actions(s),
                            action |-> c.action]
    /\ UNCHANGED <<envVars, runVars, width, files, guiVars>>

AgentUpdate ==
    /\ acall.n < MaxAgentCalls
    /\ \E s \in AgentStates, next_state \in AgentStates, reward \in Rewards :
           \E action \in RandomChoice(get_available_actions(s)) :
               \E next_available_actions \in {<<>>, get_available_actions(next_state)} :
                   /\ agents' =
                          [agents EXCEPT ![X].q_table =
                              update_q_table(agents[X].q_table, agents[X].lr,
                                             agents[X].gamma, s, action, reward,
                                             next_state, next_available_actions)]
                   /\ acall' = [op |-> "update_q_table", n |-> acall.n + 1,
                                before |-> agents[X].q_table, state |-> s,
                                action |-> action, reward |-> reward,
                                next_state |-> next_state,
                                next_available_actions |-> next_available_actions]
    /\ UNCHANGED <<envVars, runVars, width, files, guiVars>>

NextAgent == AgentChoose \/ AgentUpdate

SpecAgent == InitAgent /\ [][NextAgent]_vars

(***************************************************************************)
(* One agent of any configuration, and its decay_exploration calls         *)
(***************************************************************************)
Rates == {Rat(k, RateSteps) : k \in 0 .. RateSteps}

\* QLearningAgent("X", exploration_rate = e, exploration_decay = d,
\* min_exploration_rate = f)
InitDecay ==
    /\ EnvInit
    /\ \E e \in Rates, d \in Rates, f \in Rates :
           /\ agents = [m \in Marks |->
                           [NewAgent(m) EXCEPT !.epsilon = e,
                                               !.epsilon_decay = d,
                                               !.min_epsilon = f]]
           /\ acall = [op |-> "__init__", n |-> 0, exploration_rate |-> e,
                       before |-> e]
    /\ Idle
    /\ width = MaxChoice
    /\ NoFiles
    /\ NoFrame

DecayCall ==
    /\ acall.n < MaxDecays
    /\ agents' = [agents EXCEPT ![X] = decay_exploration(agents[X])]
    /\ acall' = [op |-> "decay_exploration", n |-> acall.n + 1,
                 exploration_rate |-> acall.exploration_rate,
                 before |-> agents[X].epsilon]
    /\ UNCHANGED <<envVars, runVars, width, files, guiVars>>

NextDecay == DecayCall

SpecDecay == InitDecay /\ [][NextDecay]_vars

(***************************************************************************)
(* save_q_table and load_q_table                                           *)
(***************************************************************************)
\* Q_TABLE_X_FILE and Q_TABLE_O_FILE, by mark
FileOf == [m \in Marks |-> IF m = X THEN "q_table_x.pkl" ELSE "q_table_o.pkl"]

FileNames == {FileOf[m] : m \in Marks}

\* self.q_table as a Python object: a mapping of its class whose values are
\* mappings of theirs
TableObject(self) ==
    [class |-> self.q_class.table,
     items |-> [s \in DOMAIN self.q_table |->
                   [class |-> IF s \in self.q_class.dict_rows
                              THEN "dict" ELSE "defaultdict",
                    items |-> self.q_table[s]]]]

\* dict(obj): a plain dict of the same items, the values being the same
\* objects
dict(obj) == [obj EXCEPT !.class = "dict"]

\* pickle.dump of a mapping of mappings: what is written is the class and the
\* items of the mapping, each value written as its class and its items
pickle_dump(obj) ==
    [class |-> obj.class,
     items |-> {<<k, [class |-> obj.items[k].class,
                      items |-> {<<a, obj.items[k].items[a]>> :
                                    a \in DOMAIN obj.items[k].items}]>> :
                   k \in DOMAIN obj.items}]

\* pickle.load of what pickle_dump wrote: the mapping of that class with
\* those items, each value a mapping of its class
pickle_load(data) ==
    [class |-> data.class,
     items |-> [k \in {item[1] : item \in data.items} |->
                   LET inner == (CHOOSE item \in data.items : item[1] = k)[2]
                   IN  [class |-> inner.class,
                        items |-> [a \in {i[1] : i \in inner.items} |->
                                      (CHOOSE i \in inner.items : i[1] = a)[2]]]]]

\* save_q_table(filename) of the agent self, on the files fs: the files it
\* leaves
save_q_table(self, fs, filename) ==
    DictSet(fs, filename, pickle_dump(dict(TableObject(self))))

\* load_q_table that keeps the object pickle.load returns as the table
load_q_table_keeps_loaded_dict(self, fs, filename) ==
    IF filename \in DOMAIN fs
    THEN LET loaded_dict == pickle_load(fs[filename])
         IN  [self EXCEPT
                 !.q_table = [s \in DOMAIN loaded_dict.items |->
                                 loaded_dict.items[s].items],
                 !.q_class = [table |-> loaded_dict.class,
                              dict_rows |-> {s \in DOMAIN loaded_dict.items :
                                                loaded_dict.items[s].class = "dict"}]]
    ELSE self

\* load_q_table(filename) of the agent self, on the files fs: the agent it
\* leaves.  The table is made anew as a defaultdict (line 134) and every
\* loaded state is given a defaultdict(float) of the loaded actions (line
\* 136).
load_q_table(self, fs, filename) ==
    IF filename \in DOMAIN fs
    THEN LET loaded_dict == pickle_load(fs[filename])
         IN  [self EXCEPT
                 !.q_table = [s \in DOMAIN loaded_dict.items |->
                                 loaded_dict.items[s].items],
                 !.q_class = NestedDefaultdict]
    ELSE self

\* self.q_table[s][action] (the read of line 113): what is raised, and when
\* nothing is, the value: the estimate, or the default 0.0 of a defaultdict
\* for a missing key.  A plain dict without the key raises KeyError.
KeyError == "KeyError"

q_lookup(self, s, action) ==
    IF s \notin DOMAIN self.q_table /\ self.q_class.table # "defaultdict"
    THEN [raised |-> KeyError]
    ELSE LET row == Touch(self.q_table, s)[s]
         IN  IF action \notin DOMAIN row /\ s \in self.q_class.dict_rows
             THEN [raised |-> KeyError]
             ELSE [raised |-> None, value |-> DictGet(row, action)]

\* The two agents after one episode of train played with the cells of moves,
\* the exploration rate being 1: the passes of the while loop, one after the
\* other, from (ags, b, d, w, lm, cur, oth).
RECURSIVE Replay(_, _, _, _, _, _, _, _)
Replay(ags, b, d, w, lm, cur, oth, moves) ==
    IF moves = <<>> \/ d
    THEN ags
    ELSE LET action == Head(moves)
             r == step(b, d, w, action, cur)
             us == TurnUpdates(cur, oth, b, get_available_actions(b), lm, action, r)
         IN  Replay(ApplyUpdates(ags, us), r.board, r.done, r.winner,
                    DictSet(lm, oth, <<b, action>>), oth, cur, Tail(moves))

EpisodeAgents(moves) ==
    Replay([m \in Marks |-> NewAgent(m)], EmptyBoard, FALSE, None, EmptyDict,
           X, O, moves)

\* episodes whose tables are found saved: X wins by 0-3-6, O wins by 1-4-7
SavedEpisodes == {<<0, 1, 3, 2, 6>>, <<0, 1, 2, 4, 3, 7>>}

\* the files main leaves after such an episode (SAVE_TABLES), and no file
SavedFiles ==
    {[f \in {} |-> EmptyDict]}
    \cup {[f \in FileNames |->
              pickle_dump(dict(TableObject(
                  EpisodeAgents(e)[CHOOSE m \in Marks : FileOf[m] = f])))] :
          e \in SavedEpisodes}

(***************************************************************************)
(* main with LOAD_TABLES and PLAY_AFTER_TRAINING set and NUM_EPISODES = 0: *)
(* the tables are loaded, then play_game is called                         *)
(***************************************************************************)
\* the agents are made (with any of three exploration rates each), and the
\* files of an earlier run are there or not
InitPlay ==
    /\ EnvInit
    /\ \E ex \in {Zero, Half, One}, eo \in {Zero, Half, One} :
           agents = [m \in Marks |->
                        [NewAgent(m) EXCEPT !.epsilon = IF m = X THEN ex ELSE eo]]
    /\ acall = NoCall
    /\ Idle
    /\ width = MaxChoice
    /\ files \in SavedFiles
    /\ NoFrame

\* lines 256-258: both agents load their tables
MainLoad ==
    /\ pc = "idle"
    /\ acall = NoCall
    /\ agents' = [m \in Marks |->
                     load_q_table(agents[m], files, FileOf[m])]
    /\ acall' = [op |-> "load_q_table", n |-> 2]
    /\ UNCHANGED <<envVars, runVars, width, files, guiVars>>

\* lines 270-272: both agents save their tables
MainSave ==
    /\ pc = "idle"
    /\ acall.op = "load_q_table"
    /\ files' = save_q_table(agents[O],
                             save_q_table(agents[X], files, FileOf[X]),
                             FileOf[O])
    /\ acall' = [op |-> "save_q_table", n |-> 2]
    /\ UNCHANGED <<envVars, agents, runVars, width, guiVars>>

\* main with LOAD_TABLES and PLAY_AFTER_TRAINING set and NUM_EPISODES = 0:
\* the load, the save, then play_game (line 275)
NextPlay ==
    \/ MainLoad
    \/ MainSave
    \/ PlayCall /\ acall.op = "save_q_table"
    \/ PlayTurn

SpecPlay == InitPlay /\ [][NextPlay]_vars

(***************************************************************************)
(* The two agents, and any sequence of save_q_table and load_q_table calls *)
(* on them                                                                 *)
(***************************************************************************)
\* the file names the calls are made with: the two of main and the default
StoreNames == FileNames \cup {"q_table.pkl"}

\* the agents are new or have played an episode of SavedEpisodes; the files
\* of an earlier run are there or not
InitStore ==
    /\ EnvInit
    /\ agents \in {[m \in Marks |-> NewAgent(m)]}
                  \cup {EpisodeAgents(e) : e \in SavedEpisodes}
    /\ acall = [op |-> "__init__", n |-> 0]
    /\ Idle
    /\ width = MaxChoice
    /\ files \in SavedFiles
    /\ NoFrame

StoreSave ==
    /\ acall.n < MaxStoreCalls
    /\ \E m \in Marks, filename \in StoreNames :
           /\ files' = save_q_table(agents[m], files, filename)
           /\ acall' = [op |-> "save_q_table", n |-> acall.n + 1, agent |-> m,
                        filename |-> filename, before |-> agents[m].q_table]
    /\ UNCHANGED <<envVars, agents, runVars, width, guiVars>>

StoreLoad ==
    /\ acall.n < MaxStoreCalls
    /\ \E m \in Marks, filename \in StoreNames :
           /\ agents' = [agents EXCEPT ![m] =
                            load_q_table(agents[m], files, filename)]
           /\ acall' = [op |-> "load_q_table", n |-> acall.n + 1, agent |-> m,
                        filename |-> filename, before |-> agents[m].q_table,
                        saved |-> IF acall.op = "save_q_table"
                                     /\ acall.filename = filename
                                  THEN {acall.before} ELSE {}]
    /\ UNCHANGED <<envVars, runVars, width, files, guiVars>>

NextStore == StoreSave \/ StoreLoad

SpecStore == InitStore /\ [][NextStore]_vars

(***************************************************************************)
(* The two agents after an episode of train, and choose_action calls on    *)
(* them with every outcome of random.choice followed                       *)
(***************************************************************************)
\* the agents are new or have played an episode of SavedEpisodes, and their
\* exploration rate has been set to 0, 0.5 or 1
InitChoose ==
    /\ EnvInit
    /\ \E ags \in {[m \in Marks |-> NewAgent(m)]}
                  \cup {EpisodeAgents(e) : e \in SavedEpisodes} :
           \E eps \in {Zero, Half, One} :
               agents = [m \in Marks |-> [ags[m] EXCEPT !.epsilon = eps]]
    /\ acall = [op |-> "__init__", n |-> 0]
    /\ Idle
    /\ width = Len(EmptyBoard)
    /\ NoFiles
    /\ NoFrame

\* choose_action(s, env.get_available_actions()) on a board s that the agent
\* stores or on one of AgentStates
ChooseCall ==
    /\ acall.n < MaxAgentCalls
    /\ \E m \in Marks :
       \E s \in AgentStates \cup DOMAIN agents[m].q_table :
           \E c \in choose_action(agents[m], s, get_available_actions(s)) :
               /\ agents' = [agents EXCEPT ![m].q_table = c.q_table]
               /\ acall' = [op |-> "choose_action", n |-> acall.n + 1,
                            agent |-> m, epsilon |-> agents[m].epsilon,
                            before |-> agents[m].q_table, state |-> s,
                            available_actions |-> get_available_actions(s),
                            action |-> c.action]
    /\ UNCHANGED <<envVars, runVars, width, files, guiVars>>

NextChoose == ChooseCall

SpecChoose == InitChoose /\ [][NextChoose]_vars

(***************************************************************************)
(* tic_tac_toe_gui.py: the frame, its event handlers, the event loop that  *)
(* runs the calls queued by wx.CallAfter, and the run_ai_game threads.     *)
(* A label is "" or a mark.  The handlers run one at a time on the GUI     *)
(* thread, gui says where the running one stands; the run_ai_game threads  *)
(* run beside it.  A step of either makes one read or one write of what    *)
(* the other side reads or writes: game_over, ai_playback_active, one      *)
(* button's label, the queue.  A write that leaves the value as it was     *)
(* makes no step of its own.                                               *)
(* call holds the last _apply_move or on_restart, acall the last           *)
(* choose_action.  In a thread's record, cancelled says that on_restart    *)
(* has cleared ai_playback_active since the thread started, and checked    *)
(* that the thread has read ai_playback_active since then.                 *)
(***************************************************************************)
NoLabel == ""

\* the texts given to update_status
TurnOf(mark) == <<"Player", mark, "'s turn">>
Thinking(mark) == <<"AI (", mark, ") thinking...">>
Wins(mark) == <<"Player", mark, "wins!">>
ItsADraw == <<"It's a Draw!">>
AIError(mark) == <<"AI", mark, "Error!">>
PlaybackStopped == <<"AI Playback Stopped">>

\* lines 198-207: board_state_list as a tuple, and available_actions_indices
board_state(bs) == [i \in 1 .. 9 |-> IF bs[i] # NoLabel THEN bs[i] ELSE Empty]

available_actions_indices(bs) ==
    SelectSeq(<<0, 1, 2, 3, 4, 5, 6, 7, 8>>, LAMBDA i : bs[i + 1] = NoLabel)

\* TicTacToeFrame.check_winner on the labels bs, as the GUI thread runs it
\* (no label changes meanwhile); "False" is False
frame_check_winner(bs) ==
    LET hits == {k \in 1 .. Len(Lines) :
                     /\ bs[Lines[k][1] + 1] = bs[Lines[k][2] + 1]
                     /\ bs[Lines[k][2] + 1] = bs[Lines[k][3] + 1]
                     /\ bs[Lines[k][3] + 1] # NoLabel}
    IN  IF hits # {}
        THEN LET first == CHOOSE k \in hits : \A j \in hits : k <= j
             IN  bs[Lines[first][1] + 1]
        ELSE IF \E i \in 1 .. 9 : bs[i] = NoLabel THEN "False" ELSE "Draw"

\* the mark of the last _apply_move since the board was cleared
LastApplied == IF call.op = "_apply_move" THEN call.player ELSE None

\* _apply_move(row, col, player), by "human" or by the thread of a queued move
ApplyMoveCall(by, thread, cell, player) ==
    [op |-> "_apply_move", by |-> by, thread |-> thread, cell |-> cell,
     player |-> player, label |-> buttons[cell + 1], last |-> LastApplied,
     cancelled |-> IF thread = 0 THEN FALSE ELSE threads[thread].cancelled]

\* the calls wx.CallAfter queues
MoveEvent(thread, action_index, player) ==
    [fn |-> "_update_gui_for_ai_move", thread |-> thread,
     cell |-> action_index, player |-> player]
GameOverEvent(w) == [fn |-> "_handle_game_over", winner |-> w]
StatusEvent(message) == [fn |-> "update_status", message |-> message]
EnableEvent == [fn |-> "restart_button.Enable"]

\* the files the frame finds: those saved after the first of SavedEpisodes
GuiFiles ==
    {[f \in FileNames |->
         pickle_dump(dict(TableObject(
             EpisodeAgents(<<0, 1, 3, 2, 6>>)
                 [CHOOSE m \in Marks : FileOf[m] = f])))]}

\* __init__ and load_ai_agents: the frame as it opens, the two agents made
\* with the default parameters and their tables loaded from the files of an
\* earlier run, if there
FrameInit ==
    /\ EnvInit
    /\ files \in GuiFiles
    /\ agents = [m \in Marks |->
                    load_q_table(NewAgent(m), files, FileOf[m])]
    /\ acall = NoCall
    /\ Idle
    /\ buttons = [i \in 1 .. 9 |-> NoLabel]
    /\ current_player = X
    /\ game_over = FALSE
    /\ ai_playback_active = FALSE
    /\ status_label = TurnOf(X)
    /\ restart_enabled = TRUE
    /\ threads = <<>>
    /\ queue = <<>>
    /\ gui = GuiIdle

\* on_button_click(event, row, col), lines 92-101, for a click that is not
\* ignored, up to _apply_move's SetLabel (lines 110-115).  Between the read
\* of ai_playback_active and SetLabel no thread can set the flag.
OnButtonClick ==
    /\ gui = GuiIdle
    /\ ~ai_playback_active
    /\ ~game_over
    /\ Cardinality({i \in 1 .. 9 : buttons[i] # NoLabel}) < MaxClicks
    /\ \E cell \in Cells :
           /\ buttons[cell + 1] = NoLabel
           /\ buttons' = [buttons EXCEPT ![cell + 1] = current_player]
           /\ call' = ApplyMoveCall("human", 0, cell, current_player)
    /\ gui' = [pc |-> "on_button_click", line |-> 102]
    /\ UNCHANGED <<board, done, winner, agents, acall, runVars, width, files,
                   current_player, game_over, ai_playback_active, status_label,
                   restart_enabled, threads, queue>>

\* on_button_click, lines 102-108: check_winner, run by the GUI thread, and
\* with a winner _handle_game_over up to line 122, else the other player's
\* turn
ClickLine102 ==
    /\ gui.pc = "on_button_click"
    /\ \E w \in {frame_check_winner(buttons)} :
           IF w # "False"
           THEN /\ game_over' = TRUE
                /\ status_label' = IF w = "Draw" THEN ItsADraw ELSE Wins(w)
                /\ gui' = [pc |-> "_handle_game_over", line |-> 124]
                /\ UNCHANGED current_player
           ELSE /\ current_player' = IF current_player = X THEN O ELSE X
                /\ status_label' = TurnOf(current_player')
                /\ gui' = GuiIdle
                /\ UNCHANGED game_over
    /\ UNCHANGED <<envVars, agents, acall, runVars, width, files, buttons,
                   ai_playback_active, restart_enabled, threads, queue>>

\* a thread's record once on_restart has cleared ai_playback_active
Cancelled(th) ==
    IF th.cancelled THEN th ELSE [th EXCEPT !.cancelled = TRUE, !.checked = FALSE]

\* lines 154-158, the first lines of on_restart, called from the Restart
\* button or from on_watch_ai: ai_thread is the thread started last, alive
\* until run_ai_game returns
EnterRestart(watch) ==
    /\ gui = GuiIdle
    /\ LET alive == threads # <<>> /\ threads[Len(threads)].pc # "finished"
       IN  /\ ai_playback_active' = (ai_playback_active /\ ~alive)
           /\ threads' = IF alive
                         THEN [threads EXCEPT ![Len(threads)] = Cancelled(@)]
                         ELSE threads
    /\ gui' = [pc |-> "on_restart", line |-> 162, watch |-> watch]
    /\ call' = [op |-> "on_restart"]
    /\ UNCHANGED <<board, done, winner, agents, acall, runVars, width, files,
                   buttons, current_player, game_over, status_label,
                   restart_enabled, queue>>

\* on_restart(event) from the Restart button: lines 152-158
OnRestart ==
    /\ restart_enabled
    /\ EnterRestart(FALSE)

\* on_watch_ai(event) from the menu: lines 175-181, into on_restart
OnWatchAi ==
    /\ Len(threads) < MaxThreads
    /\ EnterRestart(TRUE)

\* lines 161-162
RestartLine162 ==
    /\ gui.pc = "on_restart"
    /\ gui.line = 162
    /\ current_player' = X
    /\ game_over' = FALSE
    /\ gui' = [gui EXCEPT !.line = 163]
    /\ UNCHANGED <<envVars, agents, acall, runVars, width, files, buttons,
                   ai_playback_active, status_label, restart_enabled, threads,
                   queue>>

\* where on_restart stands once line `line` is done on the labels bs: in the
\* loop of lines 166-171 while a label is left to clear, else past line 173,
\* back in on_watch_ai at line 182 or in the event loop
AfterClear(bs, watch) ==
    IF \E i \in 1 .. 9 : bs[i] # NoLabel
    THEN [pc |-> "on_restart", line |-> 169, watch |-> watch]
    ELSE IF watch THEN [pc |-> "on_watch_ai", line |-> 182]
    ELSE GuiIdle

\* lines 163-164; with no label to clear, the rest of on_restart too
RestartLine163 ==
    /\ gui.pc = "on_restart"
    /\ gui.line = 163
    /\ ai_playback_active' = FALSE
    /\ status_label' = TurnOf(X)
    /\ threads' = [i \in 1 .. Len(threads) |-> Cancelled(threads[i])]
    /\ gui' = AfterClear(buttons, gui.watch)
    /\ restart_enabled' = (restart_enabled \/ gui'.pc # "on_restart")
    /\ UNCHANGED <<envVars, agents, acall, runVars, width, files, buttons,
                   current_player, game_over, queue>>

\* lines 166-171 up to the next button that has a label, which is cleared;
\* after the last one, lines 172-173
RestartClear ==
    /\ gui.pc = "on_restart"
    /\ gui.line = 169
    /\ LET cell == CHOOSE i \in 1 .. 9 :
                       /\ buttons[i] # NoLabel
                       /\ \A j \in 1 .. i - 1 : buttons[j] = NoLabel
       IN  buttons' = [buttons EXCEPT ![cell] = NoLabel]
    /\ gui' = AfterClear(buttons', gui.watch)
    /\ restart_enabled' = (restart_enabled \/ gui'.pc # "on_restart")
    /\ UNCHANGED <<envVars, agents, acall, runVars, width, files,
                   current_player, game_over, ai_playback_active, status_label,
                   threads, queue>>

\* a thread as it starts, lines 192-194.  winner is the local of line 235;
\* k and labels are the loop of lines 200-205, or k the loop of lines
\* 143-146; line, n and v say where check_winner stands: at Lines[line],
\* n labels of it read, v the last of them
NewThread ==
    [pc |-> "while", current_ai |-> X, other_ai |-> O, winner |-> None,
     k |-> 0, labels |-> <<>>, line |-> 1, n |-> 0, v |-> NoLabel,
     cancelled |-> FALSE, checked |-> FALSE]

\* on_watch_ai, lines 182-188
WatchLine182 ==
    /\ gui.pc = "on_watch_ai"
    /\ ai_playback_active' = TRUE
    /\ status_label' = Thinking(X)
    /\ restart_enabled' = FALSE
    /\ threads' = Append(threads, NewThread)
    /\ gui' = GuiIdle
    /\ UNCHANGED <<envVars, agents, acall, runVars, width, files, buttons,
                   current_player, game_over, queue>>

\* the event loop takes the first queued call and runs it: to its end, or to
\* its second write of what the threads read
Dispatch ==
    /\ gui = GuiIdle
    /\ queue # <<>>
    /\ queue' = Tail(queue)
    /\ LET e == Head(queue)
       IN  CASE e.fn = "_update_gui_for_ai_move" ->
                   \* line 254
                   /\ gui' = IF ~ai_playback_active THEN GuiIdle
                             ELSE [pc |-> "_apply_move", event |-> e]
                   /\ UNCHANGED <<game_over, status_label, restart_enabled>>
             [] e.fn = "_handle_game_over" ->
                   \* lines 118-122
                   /\ game_over' = TRUE
                   /\ status_label' = IF e.winner = "Draw" THEN ItsADraw
                                      ELSE Wins(e.winner)
                   /\ gui' = [pc |-> "_handle_game_over", line |-> 124]
                   /\ UNCHANGED restart_enabled
             [] e.fn = "update_status" ->
                   /\ status_label' = e.message
                   /\ UNCHANGED <<game_over, restart_enabled, gui>>
             [] e.fn = "restart_button.Enable" ->
                   /\ restart_enabled' = TRUE
                   /\ UNCHANGED <<game_over, status_label, gui>>
    /\ UNCHANGED <<envVars, agents, acall, runVars, width, files, buttons,
                   current_player, ai_playback_active, threads>>

\* _update_gui_for_ai_move, lines 255-256: _apply_move's SetLabel
ApplyQueuedMove ==
    /\ gui.pc = "_apply_move"
    /\ buttons' = [buttons EXCEPT ![gui.event.cell + 1] = gui.event.player]
    /\ call' = ApplyMoveCall("ai", gui.event.thread, gui.event.cell,
                             gui.event.player)
    /\ gui' = GuiIdle
    /\ UNCHANGED <<board, done, winner, agents, acall, runVars, width, files,
                   current_player, game_over, ai_playback_active, status_label,
                   restart_enabled, threads, queue>>

\* _handle_game_over, lines 124-126
GameOverLine124 ==
    /\ gui.pc = "_handle_game_over"
    /\ restart_enabled' = TRUE
    /\ ai_playback_active' = FALSE
    /\ gui' = GuiIdle
    /\ UNCHANGED <<envVars, agents, acall, runVars, width, files, buttons,
                   current_player, game_over, status_label, threads, queue>>

\* the handler that runs goes on
HandlerStep ==
    \/ ClickLine102
    \/ RestartLine162
    \/ RestartLine163
    \/ RestartClear
    \/ WatchLine182
    \/ ApplyQueuedMove
    \/ GameOverLine124

\* the thread's record after it has read ai_playback_active
Checked(th) == [th EXCEPT !.checked = th.cancelled]

\* what a step of thread i leaves alone, the queue and the flag apart
ThreadFrame ==
    UNCHANGED <<envVars, runVars, width, files, buttons, current_player,
                game_over, status_label, restart_enabled, gui>>

\* line 196, "not self.game_over"
ThreadWhile(i) ==
    /\ threads[i].pc = "while"
    /\ threads' = [threads EXCEPT ![i].pc = IF game_over THEN "cleanup" ELSE "flag"]
    /\ ThreadFrame
    /\ UNCHANGED <<agents, acall, queue, ai_playback_active>>

\* line 196, "and self.ai_playback_active"
ThreadFlag(i) ==
    /\ threads[i].pc = "flag"
    /\ threads' = [threads EXCEPT ![i] =
                      [Checked(@) EXCEPT !.pc =
                          IF ai_playback_active THEN "read" ELSE "cleanup"]]
    /\ ThreadFrame
    /\ UNCHANGED <<agents, acall, queue, ai_playback_active>>

\* lines 200-205, one button: its label is read
ThreadRead(i) ==
    /\ threads[i].pc = "read"
    /\ threads' = [threads EXCEPT ![i] =
                      [@ EXCEPT !.labels = Append(@, buttons[threads[i].k + 1]),
                                !.k = IF @ = 8 THEN 0 ELSE @ + 1,
                                !.pc = IF threads[i].k = 8 THEN "choose" ELSE "read"]]
    /\ ThreadFrame
    /\ UNCHANGED <<agents, acall, queue, ai_playback_active>>

\* lines 207-225: the action is chosen on the labels read, and queued
ThreadChoose(i) ==
    /\ threads[i].pc = "choose"
    /\ LET th == threads[i]
           current_state_tuple == board_state(th.labels)
           available == available_actions_indices(th.labels)
           to(p) == [threads EXCEPT ![i] = [@ EXCEPT !.pc = p, !.labels = <<>>]]
       IN  IF available = <<>>
           THEN /\ threads' = to("cleanup")
                /\ UNCHANGED <<agents, acall, queue, ai_playback_active>>
           ELSE /\ Len(queue) < MaxQueue
                /\ \E c \in choose_action(agents[th.current_ai],
                                          current_state_tuple, available) :
                    /\ agents' = [agents EXCEPT ![th.current_ai].q_table = c.q_table]
                    /\ acall' = [op |-> "choose_action", thread |-> i,
                                 agent |-> th.current_ai,
                                 epsilon |-> agents[th.current_ai].epsilon,
                                 before |-> agents[th.current_ai].q_table,
                                 state |-> current_state_tuple,
                                 available_actions |-> available,
                                 action |-> c.action]
                    /\ IF c.action = NoAction
                       THEN /\ queue' = Append(queue, StatusEvent(AIError(th.current_ai)))
                            /\ ai_playback_active' = FALSE
                            /\ threads' = to("cleanup")
                       ELSE /\ queue' = Append(queue, MoveEvent(i, c.action,
                                                                th.current_ai))
                            /\ threads' = to("sleep")
                            /\ UNCHANGED ai_playback_active
    /\ ThreadFrame

\* lines 231-232: the sleep is over
ThreadWake(i) ==
    /\ threads[i].pc = "sleep"
    /\ threads' = [threads EXCEPT ![i] =
                      [Checked(@) EXCEPT !.pc =
                          IF ~ai_playback_active THEN "cleanup" ELSE "winner"]]
    /\ ThreadFrame
    /\ UNCHANGED <<agents, acall, queue, ai_playback_active>>

\* check_winner goes from Lines[th.line] to the next line, or to its loop
\* of lines 143-146
NextLine(th) ==
    IF th.line < Len(Lines)
    THEN [th EXCEPT !.line = @ + 1, !.n = 0, !.v = NoLabel]
    ELSE [th EXCEPT !.pc = "draw", !.k = 0, !.line = 1, !.n = 0, !.v = NoLabel]

\* check_winner returns w to line 235
Returned(th, w) ==
    [th EXCEPT !.pc = "result", !.winner = w, !.k = 0, !.line = 1, !.n = 0,
               !.v = NoLabel]

\* line 235, in check_winner, lines 129-141: one GetLabel of the comparison
\* a == b == c != "" of a line, or of its return
ThreadWinner(i) ==
    /\ threads[i].pc = "winner"
    /\ LET th == threads[i]
           cell == Lines[th.line][IF th.n = 3 THEN 1 ELSE th.n + 1]
           label == buttons[cell + 1]
       IN  threads' = [threads EXCEPT ![i] =
               CASE th.n = 0 -> [th EXCEPT !.n = 1, !.v = label]
                 [] th.n = 1 -> IF th.v = label
                                THEN [th EXCEPT !.n = 2, !.v = label]
                                ELSE NextLine(th)
                 [] th.n = 2 -> IF th.v = label /\ label # NoLabel
                                THEN [th EXCEPT !.n = 3]
                                ELSE NextLine(th)
                 [] th.n = 3 -> Returned(th, label)]
    /\ ThreadFrame
    /\ UNCHANGED <<agents, acall, queue, ai_playback_active>>

\* line 235, in check_winner, lines 143-147: one GetLabel of the last loop
ThreadDraw(i) ==
    /\ threads[i].pc = "draw"
    /\ LET th == threads[i]
           label == buttons[th.k + 1]
       IN  threads' = [threads EXCEPT ![i] =
               IF label = NoLabel THEN Returned(th, "False")
               ELSE IF th.k = 8 THEN Returned(th, "Draw")
               ELSE [th EXCEPT !.k = @ + 1]]
    /\ ThreadFrame
    /\ UNCHANGED <<agents, acall, queue, ai_playback_active>>

\* "if winner": neither False nor an empty label
Truthy(w) == w \notin {"False", NoLabel}

\* lines 236-243
ThreadResult(i) ==
    /\ threads[i].pc = "result"
    /\ Len(queue) < MaxQueue
    /\ LET th == threads[i]
       IN  IF Truthy(th.winner)
           THEN /\ queue' = Append(queue, GameOverEvent(th.winner))
                /\ threads' = [threads EXCEPT ![i].pc = "cleanup"]
           ELSE /\ queue' = Append(queue, StatusEvent(Thinking(th.other_ai)))
                /\ threads' = [threads EXCEPT ![i] =
                                  [@ EXCEPT !.pc = "while",
                                            !.current_ai = th.other_ai,
                                            !.other_ai = th.current_ai]]
    /\ ThreadFrame
    /\ UNCHANGED <<agents, acall, ai_playback_active>>

\* line 246
ThreadCleanup(i) ==
    /\ threads[i].pc = "cleanup"
    /\ threads' = [threads EXCEPT ![i].pc = IF game_over THEN "finished" ELSE "stopped"]
    /\ ThreadFrame
    /\ UNCHANGED <<agents, acall, queue, ai_playback_active>>

\* line 247
ThreadStopped(i) ==
    /\ threads[i].pc = "stopped"
    /\ Len(queue) < MaxQueue
    /\ queue' = Append(queue, StatusEvent(PlaybackStopped))
    /\ threads' = [threads EXCEPT ![i].pc = "enable"]
    /\ ThreadFrame
    /\ UNCHANGED <<agents, acall, ai_playback_active>>

\* line 248
ThreadEnable(i) ==
    /\ threads[i].pc = "enable"
    /\ Len(queue) < MaxQueue
    /\ queue' = Append(queue, EnableEvent)
    /\ threads' = [threads EXCEPT ![i].pc = "clear_flag"]
    /\ ThreadFrame
    /\ UNCHANGED <<agents, acall, ai_playback_active>>

\* lines 249-250
ThreadClearFlag(i) ==
    /\ threads[i].pc = "clear_flag"
    /\ ai_playback_active' = FALSE
    /\ threads' = [threads EXCEPT ![i].pc = "finished"]
    /\ ThreadFrame
    /\ UNCHANGED <<agents, acall, queue>>

\* a step of thread i
ThreadStep(i) ==
    \/ ThreadWhile(i)
    \/ ThreadFlag(i)
    \/ ThreadRead(i)
    \/ ThreadChoose(i)
    \/ ThreadWake(i)
    \/ ThreadWinner(i)
    \/ ThreadDraw(i)
    \/ ThreadResult(i)
    \/ ThreadCleanup(i)
    \/ ThreadStopped(i)
    \/ ThreadEnable(i)
    \/ ThreadClearFlag(i)

(***************************************************************************)
(* The frame with one 'Watch AI vs AI' command: one playback               *)
(***************************************************************************)
InitGui ==
    /\ FrameInit
    /\ width = WatchChoice

NextGui ==
    \/ OnButtonClick
    \/ OnRestart
    \/ OnWatchAi /\ threads = <<>>
    \/ HandlerStep
    \/ Dispatch
    \/ \E i \in 1 .. Len(threads) : ThreadStep(i)

SpecGui == InitGui /\ [][NextGui]_vars

(***************************************************************************)
(* The frame with 'Watch AI vs AI' commands given while a playback runs    *)
(***************************************************************************)
InitWatch ==
    /\ FrameInit
    /\ width = WatchChoice

\* the schedules followed: the queue holds at most MaxBacklog calls and a
\* thread goes on to choose only on fewer than MaxMarks marks
WatchStep(i) ==
    /\ ThreadStep(i)
    /\ Len(queue') <= MaxBacklog
    /\ threads[i].pc = "choose" =>
           Cardinality({k \in 1 .. 9 : threads[i].labels[k] # NoLabel}) < MaxMarks

\* no game ends within MaxMarks marks: _handle_game_over is not run
NextWatch ==
    \/ OnRestart
    \/ OnWatchAi
    \/ RestartLine162
    \/ RestartLine163
    \/ RestartClear
    \/ WatchLine182
    \/ ApplyQueuedMove
    \/ Dispatch
    \/ \E i \in 1 .. Len(threads) : WatchStep(i)

SpecWatch == InitWatch /\ [][NextWatch]_vars

(***************************************************************************)
(* Properties                                                              *)
(***************************************************************************)
SeqRange(s) == {s[i] : i \in 1 .. Len(s)}

EmptyCells(b) == {i \in Cells : b[i + 1] = Empty}

Filled(b) == Cardinality({i \in Cells : b[i + 1] # Empty})

Ascending(s) == \A i \in 1 .. Len(s) - 1 : s[i] < s[i + 1]

OfKind(us, kind) == SelectSeq(us, LAMBDA u : u.kind = kind)

\* the estimate the agent holds for (s, action), as choose_action and
\* update_q_table read it with .get(action, 0.0): 0.0 when nothing is stored
Estimate(q, s, action) == IF s \in DOMAIN q THEN DictGet(q[s], action) ELSE Zero

\* C1: on every board that train and play_game reach, get_available_actions
\* is the ascending list of the empty cells, and it is empty exactly when
\* the game is over (the board has an outcome, the environment is done).
C1_AvailableEmptyIffTerminal ==
    LET available == get_available_actions(board)
    IN  /\ SeqRange(available) = EmptyCells(board)
        /\ Ascending(available)
        /\ (available = <<>>) <=> (check_winner(board) # None)
        /\ (available = <<>>) <=> done

\* C2: train never stops on an error; when it returns, the three counts of
\* the tally sum to num_episodes, and for num_episodes = 0 the tally is all
\* zeros and both tables are empty.
C2_TrainCompletes ==
    /\ pc # "raised"
    /\ pc = "returned" =>
           /\ stats["X"] + stats["O"] + stats["Draw"] = num_episodes
           /\ num_episodes = 0 =>
                  /\ stats = NewStats
                  /\ \A m \in Marks : agents[m].q_table = EmptyDict

\* C3: on the terminal turn of an episode the mover's final update is the
\* update of step 5 again: the same (state, action), keyed by the board
\* before the move, and the same reward; the mover's table holds nothing for
\* the terminal board and the action.
C3_FinalUpdateRepeatsOwn ==
    \A i \in 1 .. Len(updates) :
        updates[i].kind = "final_own" =>
            /\ updates[i].state = updates[1].state
            /\ updates[i].action = updates[1].action
            /\ updates[i].reward = updates[1].reward
            /\ Estimate(agents[updates[i].agent].q_table, board,
                        updates[i].action) = Zero

\* C4: a step on an occupied cell, or on a done environment, returns the
\* current state with reward -10 and leaves board, done and winner as they
\* were.
C4_InvalidMoveRejected ==
    (/\ call.op = "step"
     /\ call.pre_board[call.action + 1] # Empty \/ call.pre_done)
    => /\ call.state = call.pre_board
       /\ call.reward = Rat(-10, 1)
       /\ call.done = call.pre_done
       /\ board = call.pre_board
       /\ done = call.pre_done
       /\ winner = call.pre_winner

\* a step on an empty cell that is rejected because the environment is done
C4_Witness ==
    /\ call.op = "step"
    /\ call.pre_done
    /\ call.pre_board[call.action + 1] = Empty
    /\ call.reward = Rat(-10, 1)

\* C5: a step by mark M on an empty cell of a board that is not done returns
\* (1, done, winner M) when it completes a line with M, also when it fills
\* the last empty cell; (0.5, done, winner Draw) when it fills the board
\* without completing a line; (0, not done, no winner) otherwise.
C5_StepOutcome ==
    (/\ call.op = "step"
     /\ call.pre_board[call.action + 1] = Empty
     /\ ~call.pre_done)
    => LET M == call.player
           completes ==
               \E k \in 1 .. Len(Lines) :
                   /\ \E j \in 1 .. 3 : Lines[k][j] = call.action
                   /\ \A j \in 1 .. 3 : board[Lines[k][j] + 1] = M
       IN  /\ board = [call.pre_board EXCEPT ![call.action + 1] = M]
           /\ call.state = board
           /\ call.done = done
           /\ IF completes
              THEN call.reward = One /\ done /\ winner = M
              ELSE IF ~HasEmpty(board)
              THEN call.reward = Half /\ done /\ winner = "Draw"
              ELSE call.reward = Zero /\ ~done /\ winner = None

\* a move that fills the last empty cell and completes a line
C5_Witness ==
    /\ call.op = "step"
    /\ ~call.pre_done
    /\ call.pre_board[call.action + 1] = Empty
    /\ ~HasEmpty(board)
    /\ winner = call.player
    /\ call.reward = One

\* C6: in train and in play_game no move is rejected, every pass of the loop
\* places one mark, the loop goes on only while the environment is not done
\* and the board is not full, and it is left only with the environment done,
\* after at least 5 and at most 9 moves.
C6_EpisodesTerminate ==
    /\ call.op = "step" => call.reward # Rat(-10, 1)
    /\ Len(transcript) = Filled(board)
    /\ pc \in {"while", "play"} => ~done /\ Filled(board) < 9
    /\ pc \in {"decay", "raised", "played"} =>
           /\ done
           /\ Filled(board) >= 5
           /\ Filled(board) <= 9

\* a training episode that ends with the fifth move
C6_Witness ==
    /\ pc = "decay"
    /\ done
    /\ Len(transcript) = 5

\* C7: in a turn of train, a winning move gives reward 1 to every update of
\* the mover and -1 to every update of the opponent; a move that draws gives
\* 0.5 to all of them; a move that does not end the game gives 0 to all.
C7_RewardSymmetry ==
    updates # <<>> =>
        LET mover == updates[1].agent
        IN  /\ updates[1].kind = "own"
            /\ updates[1].reward = call.reward
            /\ \A i \in 1 .. Len(updates) :
                   LET u == updates[i]
                   IN  IF winner = mover
                       THEN u.reward = (IF u.agent = mover THEN One ELSE Rat(-1, 1))
                       ELSE IF winner = "Draw"
                       THEN u.reward = Half
                       ELSE /\ ~done
                            /\ u.reward = Zero
            /\ done => OfKind(updates, "final_own") # <<>>

\* a winning move with both updates of the opponent made
C7_Witness ==
    /\ Len(updates) = 4
    /\ winner = updates[1].agent
    /\ updates[2].reward = Rat(-1, 1)
    /\ updates[4].reward = Rat(-1, 1)
    /\ updates[4].agent # updates[1].agent

\* C8: in a turn of train the deferred update is made for the opponent's own
\* last move of the running episode (the board it moved on and the cell it
\* chose): none on the first turn of an episode, exactly one on every later
\* turn, made before the close-out of a terminal turn.
C8_DeferredIsOpponentsLastMove ==
    (pc \in {"while", "decay", "for", "raised"} /\ transcript # <<>>) =>
        LET n == Len(transcript)
            mover == transcript[n].mark
            deferred == OfKind(updates, "deferred")
        IN  IF n = 1
            THEN Len(updates) = 1 /\ deferred = <<>>
            ELSE /\ Len(deferred) = 1
                 /\ updates[2].kind = "deferred"
                 /\ deferred[1].agent # mover
                 /\ transcript[n - 1].mark = deferred[1].agent
                 /\ deferred[1].state = transcript[n - 1].state
                 /\ deferred[1].action = transcript[n - 1].action
                 /\ deferred[1].next_state = transcript[n].state

\* a deferred update in the second episode of a train call
C8_Witness ==
    /\ pc = "while"
    /\ episode = 1
    /\ Len(transcript) = 2
    /\ OfKind(updates, "deferred") # <<>>

\* C9 as stated: choose_action leaves the table as it was, stored states and
\* estimates, and update_q_table adds or changes nothing but the entry of
\* (state, action).
C9_OnlyUpdateWritesTable ==
    /\ acall.op = "choose_action" => agents[X].q_table = acall.before
    /\ acall.op = "update_q_table" =>
           LET q == agents[X].q_table
           IN  /\ DOMAIN q \subseteq DOMAIN acall.before \cup {acall.state}
               /\ \A s \in DOMAIN q :
                      /\ DOMAIN q[s] \subseteq
                             (IF s \in DOMAIN acall.before
                              THEN DOMAIN acall.before[s] ELSE {})
                             \cup (IF s = acall.state THEN {acall.action} ELSE {})
                      /\ \A a \in DOMAIN q[s] :
                             <<s, a>> # <<acall.state, acall.action>> =>
                                 q[s][a] = acall.before[s][a]

\* C9 amended: neither call removes a stored state or a stored estimate, and
\* neither changes an estimate other than update_q_table's (state, action);
\* choose_action may add its state, and update_q_table its state and
\* next_state, as stored states, with no estimate but the one written.
C9_OnlyWrittenEstimateChanges ==
    acall.op \in {"choose_action", "update_q_table"} =>
        LET q == agents[X].q_table
            old == acall.before
            written == IF acall.op = "update_q_table"
                       THEN {<<acall.state, acall.action>>} ELSE {}
            touched == IF acall.op = "update_q_table"
                       THEN {acall.state, acall.next_state} ELSE {acall.state}
        IN  /\ DOMAIN old \subseteq DOMAIN q
            /\ DOMAIN q \subseteq DOMAIN old \cup touched
            /\ \A s \in DOMAIN q :
                   /\ DOMAIN q[s] =
                          (IF s \in DOMAIN old THEN DOMAIN old[s] ELSE {})
                          \cup {p[2] : p \in {w \in written : w[1] = s}}
                   /\ \A a \in DOMAIN q[s] :
                          <<s, a>> \notin written => q[s][a] = old[s][a]

\* a choose_action call that added a stored state to a table that holds
\* estimates
C9_Witness ==
    /\ acall.op = "choose_action"
    /\ agents[X].q_table # acall.before
    /\ acall.before # EmptyDict

\* C10 as stated: whatever the three rates, epsilon is never below the floor
\* and no decay_exploration call raises it.
C10_DecayMonotoneFloor ==
    /\ RLeq(agents[X].min_epsilon, agents[X].epsilon)
    /\ acall.op = "decay_exploration" => RLeq(agents[X].epsilon, acall.before)

\* C10 amended: when the initial exploration rate is at least the floor,
\* epsilon is never below the floor and no decay_exploration call raises it.
C10_DecayMonotoneFromAboveFloor ==
    RLeq(agents[X].min_epsilon, acall.exploration_rate) =>
        /\ RLeq(agents[X].min_epsilon, agents[X].epsilon)
        /\ acall.op = "decay_exploration" => RLeq(agents[X].epsilon, acall.before)

\* a decay_exploration call that lowers epsilon onto the floor
C10_Witness ==
    /\ acall.op = "decay_exploration"
    /\ RLeq(agents[X].min_epsilon, acall.exploration_rate)
    /\ RLess(agents[X].epsilon, acall.before)
    /\ agents[X].epsilon = agents[X].min_epsilon
    /\ RLess(Zero, agents[X].min_epsilon)

EpsilonOf(ags) == [m \in Marks |-> ags[m].epsilon]

\* every state q stores is stored by q2 with the same estimates, and the
\* states q2 adds are stored with no estimate
SameEstimates(q, q2) ==
    /\ DOMAIN q \subseteq DOMAIN q2
    /\ \A s \in DOMAIN q2 : q2[s] = IF s \in DOMAIN q THEN q[s] ELSE EmptyDict

\* C11: play_game resets the environment once and plays one episode; both
\* agents' epsilon is 0 while its loop runs (at every choose_action call);
\* when the loop is left, by game over or by the no-action break, both
\* epsilon are what they were before the call; and no step of the run changes
\* a stored estimate of either table.
C11_PlayGameFrame ==
    [][/\ (pc # "play" /\ pc' = "play") =>
              /\ original_epsilon' = EpsilonOf(agents)
              /\ call'.op = "reset"
              /\ transcript' = <<>>
       /\ pc' = "play" => \A m \in Marks : agents'[m].epsilon = Zero
       /\ pc = "play" =>
              /\ original_epsilon' = original_epsilon
              /\ call'.op = "step"
              /\ Len(transcript') = Len(transcript) + 1
              /\ pc' \in {"play", "played"}
              /\ pc' = "played" <=> done'
       /\ (pc = "play" /\ pc' = "played") =>
              EpsilonOf(agents') = original_epsilon
       /\ (pc = "play" \/ pc' = "play") =>
              \A m \in Marks : SameEstimates(agents[m].q_table, agents'[m].q_table)
      ]_vars

\* a finished play_game between agents of different, non-zero exploration
\* rates whose loaded tables hold non-zero estimates, one of them having
\* stored a new state during the run
C11_Witness ==
    /\ pc = "played"
    /\ done
    /\ agents[X].epsilon = One
    /\ agents[O].epsilon = Half
    /\ original_epsilon = EpsilonOf(agents)
    /\ \A m \in Marks :
           \E s \in DOMAIN agents[m].q_table :
               \E a \in DOMAIN agents[m].q_table[s] :
                   agents[m].q_table[s][a] # Zero
    /\ \E s \in DOMAIN agents[O].q_table :
           /\ agents[O].q_table[s] = EmptyDict
           /\ \E i \in 1 .. Len(transcript) : transcript[i].state = s

\* C14: after load_q_table of an absent artifact the agent's table is empty,
\* whatever it held before; after load_q_table of a present artifact the
\* table is the saved mapping, exactly (what is in the artifact is what
\* saving the table would write).
C14_LoadAbsentOrPresent ==
    acall.op = "load_q_table" =>
        LET q == agents[acall.agent].q_table
        IN  IF acall.filename \in DOMAIN files
            THEN pickle_dump(dict(TableObject(agents[acall.agent])))
                     = files[acall.filename]
            ELSE q = EmptyDict

\* every stored (state, action) of q has the same estimate in q2
KeepsEstimates(q, q2) ==
    \A s \in DOMAIN q : \A a \in DOMAIN q[s] :
        /\ s \in DOMAIN q2
        /\ a \in DOMAIN q2[s]
        /\ q2[s][a] = q[s][a]

\* the boards on the way of the episodes X 4, O 0, ... : boards no saved
\* table stores
UnseenStates ==
    {[EmptyBoard EXCEPT ![5] = X], [EmptyBoard EXCEPT ![5] = X, ![1] = O]}

\* (state, action) is not stored in q
NeverStored(q, s, a) == s \notin DOMAIN q \/ a \notin DOMAIN q[s]

\* C15: a load_q_table that follows a save_q_table of the same file (by
\* either agent, of a table left by training or by an earlier load) leaves a
\* table with the same estimate for every (state, action) stored in the
\* saved one, and stores no other; and on every table of the run, before and
\* after the calls, q_table[state][action] of a pair never stored, of a
\* stored state or of an unseen one, is 0.0 and not a KeyError.
C15_SaveLoadRoundTrip ==
    /\ \A m \in Marks :
           \A s \in DOMAIN agents[m].q_table \cup UnseenStates, a \in Cells :
               NeverStored(agents[m].q_table, s, a) =>
                   /\ q_lookup(agents[m], s, a).raised = None
                   /\ q_lookup(agents[m], s, a).value = Zero
    /\ acall.op = "load_q_table" =>
           \A q \in acall.saved :
               /\ KeepsEstimates(q, agents[acall.agent].q_table)
               /\ KeepsEstimates(agents[acall.agent].q_table, q)

\* O has loaded the file that X had just saved under the default name: its
\* table was another before, holds X's estimates now, a non-zero one among
\* them, and has a stored state with a cell never stored
C15_Witness ==
    /\ acall.op = "load_q_table"
    /\ acall.agent = O
    /\ acall.filename = "q_table.pkl"
    /\ acall.saved = {agents[X].q_table}
    /\ agents[O].q_table # acall.before
    /\ \E s \in DOMAIN agents[O].q_table :
           /\ \E a \in DOMAIN agents[O].q_table[s] : agents[O].q_table[s][a] # Zero
           /\ \E a \in Cells : a \notin DOMAIN agents[O].q_table[s]

\* C16: a choose_action call made with exploration rate 0 and a non-empty
\* list returns an action of the list whose estimate (0.0 when absent) is
\* the largest of the list's; and every action of the list with that
\* estimate is a result the call can give, so the first of the tied actions
\* is not preferred.
C16_GreedyChoice ==
    (/\ acall.op = "choose_action"
     /\ acall.epsilon = Zero
     /\ acall.available_actions # <<>>)
    => LET list == SeqRange(acall.available_actions)
           est(a) == Estimate(acall.before, acall.state, a)
           asked == [agents[acall.agent] EXCEPT !.q_table = acall.before]
           results == {c.action : c \in choose_action(asked, acall.state,
                                                      acall.available_actions)}
       IN  /\ acall.action \in list
           /\ \A a \in list : RLeq(est(a), est(acall.action))
           /\ results = {a \in list : \A b \in list : RLeq(est(b), est(a))}

\* a call that returned a tied best action that is neither the first of the
\* list nor the first of the tied ones, the first of the list having a lower
\* estimate
C16_Witness ==
    /\ acall.op = "choose_action"
    /\ acall.epsilon = Zero
    /\ Len(acall.available_actions) > 2
    /\ Estimate(acall.before, acall.state, acall.available_actions[1])
           # Estimate(acall.before, acall.state, acall.action)
    /\ Estimate(acall.before, acall.state, acall.available_actions[2])
           = Estimate(acall.before, acall.state, acall.action)
    /\ acall.action # acall.available_actions[2]

\* C17: a step changes no cell but its own, and that one only from empty to
\* the mover's mark; a step that is not rejected changes exactly that cell;
\* so no call but reset changes a non-empty cell.  reset leaves nine empty
\* cells, done false and no winner.
C17_BoardOnlyFills ==
    [][/\ call'.op = "reset" =>
              /\ board' = EmptyBoard
              /\ done' = FALSE
              /\ winner' = None
       /\ call'.op = "step" =>
              LET changed == {i \in 1 .. 9 : board'[i] # board[i]}
                  cell == call'.action + 1
              IN  /\ changed \subseteq {cell}
                  /\ \A i \in changed :
                         /\ board[i] = Empty
                         /\ board'[i] = call'.player
                  /\ (board[cell] = Empty /\ ~done) => changed = {cell}
                  /\ call'.reward # Rat(-10, 1) => changed = {cell}
                  /\ \A i \in 1 .. 9 : board[i] # Empty => board'[i] = board[i]
      ]_vars

\* a step that was not rejected has put the third mark on the board
C17_Witness ==
    /\ call.op = "step"
    /\ call.reward = Zero
    /\ Filled(call.pre_board) = 2
    /\ Filled(board) = 3
    /\ board[call.action + 1] = call.player

\* C18: whenever train or play_game is about to call choose_action, the list
\* of available actions it passes is not empty and the call returns one of
\* its cells, never "no action"; and the loops are never left by the break
\* that handles "no action": train leaves its loop after the updates of a
\* move, play_game with the environment done.
C18_ChooseNeverEmpty ==
    /\ pc \in {"while", "play"} =>
           LET available_actions == get_available_actions(board)
           IN  /\ available_actions # <<>>
               /\ state = board
               /\ \A c \in choose_action(agents[current_agent], state,
                                         available_actions) :
                      /\ c.action # NoAction
                      /\ c.action \in SeqRange(available_actions)
    /\ pc \in {"decay", "raised"} => updates # <<>> /\ call.op = "step"
    /\ pc = "played" => done /\ call.op = "step"

\* play_game is about to ask for the ninth move: one action is available
C18_Witness ==
    /\ pc = "play"
    /\ Len(get_available_actions(board)) = 1
    /\ Len(transcript) = 8

\* the number of cells of b that hold mark
Count(b, mark) == Cardinality({i \in Cells : b[i + 1] = mark})

\* the update_q_table calls us, made in order on the agents ags, all leave
\* what they would leave with a discount factor of 0: the bootstrap term
\* max_next_q is 0 in each
RECURSIVE NoBootstrap(_, _)
NoBootstrap(ags, us) ==
    \/ us = <<>>
    \/ LET u == Head(us)
           a == ags[u.agent]
       IN  /\ update_q_table(a.q_table, a.lr, a.gamma, u.state, u.action,
                             u.reward, u.next_state, u.next_available_actions)
              = update_q_table(a.q_table, a.lr, Zero, u.state, u.action,
                               u.reward, u.next_state, u.next_available_actions)
           /\ NoBootstrap(ApplyUpdates(ags, <<u>>), Tail(us))

\* C19: in training from empty tables, each update_q_table call of each pass
\* (own, deferred, and the two final ones) has a bootstrap term of 0; an
\* update writes an estimate for an empty cell only on a board where its
\* agent is the one to move, and the next state it reads is a board where
\* the opponent is to move.
C19_BootstrapAlwaysZero ==
    [][(pc = "while" /\ updates' # <<>>) =>
           /\ NoBootstrap(agents, updates')
           /\ \A i \in 1 .. Len(updates') :
                  LET u == updates'[i]
                      n == IF u.agent = X THEN 0 ELSE 1
                  IN  /\ u.next_available_actions # <<>> =>
                             Count(u.next_state, X)
                                 = Count(u.next_state, O) + (1 - n)
                      /\ u.state[u.action + 1] = Empty =>
                             Count(u.state, X) = Count(u.state, O) + n
      ]_vars

\* in the second episode the mover wins on a board that its table already
\* stores with a non-zero estimate (written by the final update of the first
\* episode), and its own update was given that board, with its empty cells,
\* as the next state
C19_Witness ==
    /\ episode = 1
    /\ done
    /\ winner \in Marks
    /\ updates # <<>>
    /\ updates[1].kind = "own"
    /\ updates[1].next_state = board
    /\ updates[1].next_available_actions # <<>>
    /\ agents[winner].q_table[board][updates[1].action] = Rat(19, 100)

\* C12: at every choose_action call run_ai_game makes, the calling agent's
\* epsilon is 0, and the action returned has the largest estimate of the
\* empty cells.
C12_PlaybackExploits ==
    acall.op = "choose_action" =>
        /\ acall.epsilon = Zero
        /\ \A a \in SeqRange(acall.available_actions) :
               RLeq(Estimate(acall.before, acall.state, a),
                    Estimate(acall.before, acall.state, acall.action))

\* the threads in the body of the loop that have not been cancelled, or have
\* read ai_playback_active since they were
Placing ==
    {i \in 1 .. Len(threads) :
         /\ threads[i].pc \in {"read", "choose", "sleep", "winner", "draw", "result"}
         /\ ~threads[i].cancelled \/ threads[i].checked}

\* C13: a thread that was alive when on_restart ran leaves its loop at its
\* next read of ai_playback_active; no mark queued by such a thread is put
\* on the board; and at most one thread at a time is in the loop placing
\* moves.
C13_CancelIsEffective ==
    /\ \A i \in 1 .. Len(threads) :
           (threads[i].cancelled /\ threads[i].checked) =>
               threads[i].pc \in {"cleanup", "stopped", "enable", "clear_flag",
                                  "finished"}
    /\ (call.op = "_apply_move" /\ call.by = "ai") => ~call.cancelled
    /\ Cardinality(Placing) <= 1

\* C20: with one playback, each move _update_gui_for_ai_move applies goes to
\* a cell whose label is empty when it is applied, and the marks applied
\* alternate, X first.
C20_MovesOnEmptyCells ==
    (call.op = "_apply_move" /\ call.by = "ai") =>
        /\ call.label = NoLabel
        /\ call.player = (IF call.last = X THEN O ELSE X)


\* the marks that hold a completed line of b
LineMarks(b) == {b[Lines[k][1] + 1] : k \in {j \in 1 .. Len(Lines) : LineDone(b, Lines[j])}}

\* C22: under any sequence of reset and step calls with any cell and mark, an
\* environment that is not done has no completed line, so after a step that
\* was not rejected every completed line holds the mover's mark; a step never
\* returns reward -1: what it returns is 0, 0.5, 1 or -10, and -10 exactly
\* when the step is rejected.
C22_NeverAgentLost ==
    /\ ~done => LineMarks(board) = {}
    /\ call.op = "step" =>
           /\ call.reward # Rat(-1, 1)
           /\ call.reward \in {Zero, Half, One, Rat(-10, 1)}
           /\ call.reward = Rat(-10, 1)
                  <=> (call.pre_board[call.action + 1] # Empty \/ call.pre_done)
           /\ call.reward # Rat(-10, 1) =>
                  /\ LineMarks(board) \subseteq {call.player}
                  /\ winner \in {None, "Draw", call.player}

\* a step that completed a line of the mover's mark while the other mark
\* held two cells of a line whose third cell was empty
C22_Witness ==
    /\ call.op = "step"
    /\ ~call.pre_done
    /\ call.reward = One
    /\ LineMarks(board) = {call.player}
    /\ \E k \in 1 .. Len(Lines), other \in Marks \ {call.player} :
           /\ Cardinality({j \in 1 .. 3 : board[Lines[k][j] + 1] = other}) = 2
           /\ Cardinality({j \in 1 .. 3 : board[Lines[k][j] + 1] = Empty}) = 1


\* C23: in train and in play_game the first move of an episode is X's and the
\* movers alternate: the i-th move of the episode is X's when i is odd and O's
\* when i is even, and it is made on the board the moves before it left.  So
\* on every board the X marks are as many as the O marks or one more, the
\* agent about to be asked for an action is X exactly when they are as many,
\* train's other_agent is the other mark, and at most one mark holds a
\* completed line.
C23_XFirstAlternate ==
    /\ Count(board, X) - Count(board, O) \in {0, 1}
    /\ Cardinality(LineMarks(board)) <= 1
    /\ \A i \in 1 .. Len(transcript) :
           /\ transcript[i].mark = IF i % 2 = 1 THEN X ELSE O
           /\ Filled(transcript[i].state) = i - 1
    /\ pc \in {"while", "play"} =>
           /\ state = board
           /\ Filled(board) = Len(transcript)
           /\ current_agent = X <=> Count(board, X) = Count(board, O)
           /\ current_agent = O <=> Count(board, X) = Count(board, O) + 1
    /\ pc = "while" => other_agent = IF current_agent = X THEN O ELSE X

\* X is about to be asked for the ninth move of an episode of train, after
\* four moves of each mark
C23_Witness ==
    /\ pc = "while"
    /\ Len(transcript) = 8
    /\ current_agent = X
    /\ Count(board, X) = 4
    /\ Count(board, O) = 4
    /\ transcript[8].mark = O


\* the text _handle_game_over shows for winner w
ResultText(w) == IF w = "Draw" THEN ItsADraw ELSE Wins(w)

\* C21: when the thread of a playback has left its loop because check_winner
\* reported a win or a draw, and no command has been given since, the cleanup
\* of lines 246-249 has not been made: 'AI Playback Stopped' is neither
\* queued nor shown; and once the queue of calls is empty game_over is true
\* and the status label shows the result of the game.
C21_PlaybackEndShowsResult ==
    \A i \in 1 .. Len(threads) :
        (/\ threads[i].pc = "finished"
         /\ threads[i].winner # None
         /\ Truthy(threads[i].winner)
         /\ ~threads[i].cancelled)
        => /\ \A k \in 1 .. Len(queue) : queue[k] # StatusEvent(PlaybackStopped)
           /\ status_label # PlaybackStopped
           /\ queue = <<>> =>
                  /\ game_over
                  /\ status_label = ResultText(threads[i].winner)

====
